---- MODULE Spec2Model ----
(***************************************************************************)
(* A model of auto_dev.py: the jittered scheduler (dates_between), the     *)
(* round-robin attribution and conditional commit loop of main(), the      *)
(* per-author commit-count check and the publishing commands after it.     *)
(*                                                                         *)
(* Time is counted in minutes; a datetime is ordinal(day) * 1440 + minute  *)
(* of the day, a civil date is a record [y, m, d].                         *)
(***************************************************************************)
EXTENDS Integers, Sequences, FiniteSets, TLC

(***************************************************************************)
(* Bounds of the model.                                                    *)
(***************************************************************************)
MaxDays == 4
MaxCount == 4
MaxSeed == 1
MaxPool == 6
MaxRuns == 2
MaxDistinct == 4

(***************************************************************************)
(* Literals of the source.                                                 *)
(***************************************************************************)
HourLo == 9
HourHi == 20
MinuteLo == 0
MinuteHi == 59
BackoffLo == 1
BackoffHi == 6
Threshold == 13
NumExamples == 39
NumTestCases == 12

MinutesPerHour == 60
MinutesPerDay == 1440

VARIABLES
    \* ---- one call of dates_between(start, end, count) ----
    s_pc,           \* "idle" | "call" | "loop" | "returned"
    s_start,        \* argument start, a civil date
    s_end,          \* argument end, a civil date
    s_count,        \* argument count
    s_step,         \* local step (days)
    s_current,      \* local current (minutes)
    s_i,            \* loop index i
    s_dates,        \* local dates (list of datetimes, in minutes)
    s_result,       \* the returned list
    \* ---- one invocation of main() ----
    run,            \* which invocation of main() this is (1 = the first)
    pc,             \* position in main()
    setup,          \* the configuration main() runs with
    worktree,       \* files of REPO_DIR: path -> content
    head,           \* tree of the last commit: path -> content
    accounts,       \* rows read from the accounts CSV
    rng,            \* draws taken from the seeded random source so far
    phase_dates,    \* phase_dates: one list of datetimes per phase
    author_counts,  \* author_counts: username -> commits
    author_index,   \* author_index
    p_idx,          \* index of the phase being processed (1-based)
    c_idx,          \* index of the next action in that phase (1-based)
    calls,          \* log of the calls of commit_all made by this run
    history,        \* commits created by this run, oldest first
    git_env,        \* GIT_AUTHOR_DATE / GIT_COMMITTER_DATE / user.name / user.email
    remote,         \* the remote alias origin and what was pushed to it
    pub_log,        \* publishing steps taken by this run
    err             \* the exception that ended the run, or NoError

sched_vars == <<s_pc, s_start, s_end, s_count, s_step, s_current, s_i, s_dates, s_result>>
main_vars == <<run, pc, setup, worktree, head, accounts, rng, phase_dates, author_counts,
               author_index, p_idx, c_idx, calls, history, git_env, remote, pub_log, err>>
vars == <<s_pc, s_start, s_end, s_count, s_step, s_current, s_i, s_dates, s_result,
          run, pc, setup, worktree, head, accounts, rng, phase_dates, author_counts,
          author_index, p_idx, c_idx, calls, history, git_env, remote, pub_log, err>>

(***************************************************************************)
(* Civil dates: datetime.strptime(s, '%Y-%m-%d') and date arithmetic.      *)
(***************************************************************************)
Date(y, m, d) == [y |-> y, m |-> m, d |-> d]

IsLeap(y) == (y % 4 = 0) /\ ((y % 100 # 0) \/ (y % 400 = 0))

DaysInMonth(y, m) ==
    IF m = 2 THEN (IF IsLeap(y) THEN 29 ELSE 28)
    ELSE IF m \in {4, 6, 9, 11} THEN 30 ELSE 31

RECURSIVE DaysBeforeMonth(_, _)
DaysBeforeMonth(y, m) ==
    IF m = 1 THEN 0 ELSE DaysBeforeMonth(y, m - 1) + DaysInMonth(y, m - 1)

DaysBeforeYear(y) ==
    LET p == y - 1 IN p * 365 + (p \div 4) - (p \div 100) + (p \div 400)

\* the proleptic Gregorian ordinal of a civil date (1 = 0001-01-01)
Ordinal(date) == DaysBeforeYear(date.y) + DaysBeforeMonth(date.y, date.m) + date.d

\* strptime(s, '%Y-%m-%d'): midnight of that day
Strptime(date) == Ordinal(date) * MinutesPerDay

NextDay(date) ==
    IF date.d < DaysInMonth(date.y, date.m) THEN Date(date.y, date.m, date.d + 1)
    ELSE IF date.m < 12 THEN Date(date.y, date.m + 1, 1)
    ELSE Date(date.y + 1, 1, 1)

RECURSIVE AddDays(_, _)
AddDays(date, n) == IF n <= 0 THEN date ELSE AddDays(NextDay(date), n - 1)

Max(a, b) == IF a >= b THEN a ELSE b

\* Python's floor division a // b for b > 0
FloorDiv(a, b) == a \div b

(***************************************************************************)
(* list.sort() on a list of datetimes: insertion sort, stable.             *)
(***************************************************************************)
RECURSIVE InsertSorted(_, _)
InsertSorted(s, x) ==
    IF s = <<>> THEN <<x>>
    ELSE IF x < Head(s) THEN <<x>> \o s
    ELSE <<Head(s)>> \o InsertSorted(Tail(s), x)

RECURSIVE SortFrom(_, _)
SortFrom(acc, s) ==
    IF s = <<>> THEN acc ELSE SortFrom(InsertSorted(acc, Head(s)), Tail(s))

Unsorted(s) == s

Sort(s) == SortFrom(<<>>, s)

(***************************************************************************)
(* dates_between: the body of its loop, and the call as a state machine    *)
(* whose jitter values are inputs.                                         *)
(***************************************************************************)
\* random.randint(9, 20) and random.randint(0, 59), sampled: the ends of each
\* range, and the hour at which an unclamped time of the last day meets the
\* earliest clamped one (end - 6 h)
Hours == {HourLo, 24 - BackoffHi, HourHi}
Minutes == {MinuteLo, MinuteHi}
\* random.randint(1, 6), in full
Backoffs == BackoffLo..BackoffHi

TotalDays(start, end) == FloorDiv(Strptime(end) - Strptime(start), MinutesPerDay)

ReturnsEmptyOffByOne(count) == count <= 1

\* line 71: if count <= 0: return []
ReturnsEmpty(count) == count <= 0

StepRoundedUp(total_days, count) == Max(1, FloorDiv(total_days + count - 1, count))

\* line 73
Step(total_days, count) == Max(1, FloorDiv(total_days, count))

\* line 75
FirstCurrent(start) == Strptime(start) + MinutesPerDay

\* line 80: dt > end_dt, for dt = current + jitter
Overshoots(current, end_dt, h, m) ==
    current + h * MinutesPerHour + m > end_dt

JitteredDateUnclamped(current, end_dt, h, m, b) ==
    current + h * MinutesPerHour + m

\* lines 77-81: the datetime appended by one iteration
JitteredDate(current, end_dt, h, m, b) ==
    IF Overshoots(current, end_dt, h, m)
    THEN end_dt - b * MinutesPerHour
    ELSE current + h * MinutesPerHour + m

SchedIdle ==
    /\ s_pc = "idle"
    /\ s_start = Date(1, 1, 1)
    /\ s_end = Date(1, 1, 1)
    /\ s_count = 0
    /\ s_step = 0
    /\ s_current = 0
    /\ s_i = 0
    /\ s_dates = <<>>
    /\ s_result = <<>>

SchedStarts == {Date(2024, 2, 27), Date(2023, 12, 30)}

\* lines 68-75: entry of dates_between up to the loop
SchedEntry ==
    /\ s_pc = "call"
    /\ IF ReturnsEmpty(s_count)
       THEN /\ s_pc' = "returned"
            /\ s_result' = <<>>
            /\ UNCHANGED <<s_step, s_current>>
       ELSE /\ s_pc' = "loop"
            /\ s_step' = Step(TotalDays(s_start, s_end), s_count)
            /\ s_current' = FirstCurrent(s_start)
            /\ UNCHANGED s_result
    /\ UNCHANGED <<s_start, s_end, s_count, s_i, s_dates>>
    /\ UNCHANGED main_vars

\* lines 76-86: one iteration; the last one sorts and returns
SchedIterate ==
    /\ s_pc = "loop"
    /\ \E h \in Hours, m \in Minutes :
         \E b \in (IF Overshoots(s_current, Strptime(s_end), h, m)
                   THEN Backoffs ELSE {BackoffLo}) :
            LET dt == JitteredDate(s_current, Strptime(s_end), h, m, b)
                ds == Append(s_dates, dt)
            IN /\ s_dates' = ds
               /\ s_current' = s_current + s_step * MinutesPerDay
               /\ s_i' = s_i + 1
               /\ IF s_i + 1 = s_count
                  THEN /\ s_result' = Sort(ds)
                       /\ s_pc' = "returned"
                  ELSE /\ UNCHANGED s_result
                       /\ s_pc' = "loop"
    /\ UNCHANGED <<s_start, s_end, s_count, s_step>>
    /\ UNCHANGED main_vars

MainIdle ==
    /\ run = 0
    /\ pc = "idle"
    /\ setup = [reg |-> "none"]
    /\ worktree = [p \in {} |-> <<>>]
    /\ head = [p \in {} |-> <<>>]
    /\ accounts = <<>>
    /\ rng = 0
    /\ phase_dates = <<>>
    /\ author_counts = <<>>
    /\ author_index = 0
    /\ p_idx = 0
    /\ c_idx = 0
    /\ calls = <<>>
    /\ history = <<>>
    /\ git_env = <<>>
    /\ remote = <<>>
    /\ pub_log = <<>>
    /\ err = [kind |-> "none", detail |-> "", cnt |-> 0]

SchedInit ==
    /\ MainIdle
    /\ s_pc = "call"
    /\ s_start \in SchedStarts
    /\ \E n \in 0..MaxDays : s_end = AddDays(s_start, n)
    /\ s_count \in 0..MaxCount
    /\ s_step = 0
    /\ s_current = 0
    /\ s_i = 0
    /\ s_dates = <<>>
    /\ s_result = <<>>

SchedNext == SchedEntry \/ SchedIterate

SchedSpec == SchedInit /\ [][SchedNext]_vars

(***************************************************************************)
(* The seeded random source.  random.seed(1337) fixes the stream of        *)
(* draws; which stream it is is left open: a stream is one of a family     *)
(* indexed by 0..MaxSeed, and a draw is a function of the stream and of    *)
(* the number of draws taken before it.                                    *)
(***************************************************************************)
Streams == 0..MaxSeed

RandBelow(stream, pos, n) ==
    (((pos + 1) * (pos + 2 * stream + 3) * 7 + stream * 5 + (pos \div 3)) % 1009) % n

\* the generator of a new process is seeded by the system: where it stands
\* in the stream is not determined until random.seed is called
StartPositions == {0, 5}

SeedMissing(pos) == pos

\* line 472: random.seed(1337) puts the generator at the start of the stream
Seed(pos) == 0

\* random.randint(a, b): a <= N <= b
RandInt(stream, pos, a, b) == a + RandBelow(stream, pos, b - a + 1)

(***************************************************************************)
(* when.strftime('%Y-%m-%d %H:%M:%S +0000'): the civil date and time of a  *)
(* datetime, and git's reading of that string back as a time.              *)
(***************************************************************************)
YearOfOrdinal(ord) ==
    CHOOSE y \in ((ord \div 366) + 1)..((ord \div 365) + 1) :
        DaysBeforeYear(y) < ord /\ ord <= DaysBeforeYear(y + 1)

MonthOfOrdinal(y, ord) ==
    CHOOSE m \in 1..12 :
        /\ DaysBeforeYear(y) + DaysBeforeMonth(y, m) < ord
        /\ ord <= DaysBeforeYear(y) + DaysBeforeMonth(y, m) + DaysInMonth(y, m)

Strftime(when) ==
    LET ord == when \div MinutesPerDay
        y == YearOfOrdinal(ord)
        m == MonthOfOrdinal(y, ord)
        minute_of_day == when % MinutesPerDay
    IN [y |-> y, m |-> m, d |-> ord - DaysBeforeYear(y) - DaysBeforeMonth(y, m),
        H |-> minute_of_day \div MinutesPerHour, M |-> minute_of_day % MinutesPerHour,
        S |-> 0, tz |-> "+0000"]

GitTimeDateOnly(stamp) == Ordinal(Date(stamp.y, stamp.m, stamp.d)) * MinutesPerDay

\* git's parse of 'YYYY-MM-DD HH:MM:SS +0000', in minutes
GitTime(stamp) ==
    Ordinal(Date(stamp.y, stamp.m, stamp.d)) * MinutesPerDay
        + stamp.H * MinutesPerHour + stamp.M

(***************************************************************************)
(* Files.  A content is a list of chunks; a chunk names the text written   *)
(* by one call (by the message of the action that wrote it) and, for a     *)
(* generated example, the rarity drawn.  A tree maps the paths that exist  *)
(* to their contents.                                                      *)
(***************************************************************************)
Chunk(by, r) == [by |-> by, r |-> r]

EmptyTree == [p \in {} |-> <<>>]

Exists(tree, path) == path \in DOMAIN tree

\* write_file(path, content), lines 52-54
WriteFile(tree, path, content) ==
    [p \in DOMAIN tree \cup {path} |-> IF p = path THEN content ELSE tree[p]]

\* append_file(path, content), lines 57-60
AppendFile(tree, path, content) ==
    [p \in DOMAIN tree \cup {path} |->
        IF p = path
        THEN (IF path \in DOMAIN tree THEN tree[p] \o content ELSE content)
        ELSE tree[p]]

GitignorePath == ".gitignore"
ScriptPath == "auto_dev.py"
DefaultGitignore == <<Chunk("ensure_initial_gitignore", 0)>>
UserGitignore == <<Chunk("created before the run", 0)>>
\* the same lines, each ending in CR LF
UserGitignoreCrlf == <<Chunk("created before the run, lines ending in CR LF", 0)>>

\* text mode of read_text (newline=None): CR LF is read as LF; write_text
\* writes LF as it is (the script's paths are those of a POSIX system)
UniversalNewlines(content) ==
    [i \in DOMAIN content |->
        IF content[i] = UserGitignoreCrlf[1] THEN UserGitignore[1] ELSE content[i]]

\* Path.read_text(encoding='utf-8')
ReadText(tree, path) == UniversalNewlines(tree[path])

\* ensure_initial_gitignore(), lines 89-97
ensure_initial_gitignore(tree) ==
    IF ~Exists(tree, GitignorePath)
    THEN WriteFile(tree, GitignorePath, DefaultGitignore)
    ELSE tree

(***************************************************************************)
(* Actions: (message, mutation).  A mutation is write_file of a fixed      *)
(* text, append_file of a fixed text, the generated example (write_file    *)
(* of a text with a drawn rarity) or the rewrite of .gitignore with what   *)
(* is read from it.                                                        *)
(***************************************************************************)
W(msg, path) == [msg |-> msg, kind |-> "write", path |-> path]
A(msg, path) == [msg |-> msg, kind |-> "append", path |-> path]
X(msg, path) == [msg |-> msg, kind |-> "example", path |-> path]
R(msg, path) == [msg |-> msg, kind |-> "rewrite", path |-> path]

Pad2(i) == (IF i < 10 THEN "0" ELSE "") \o ToString(i)

Rarities == <<"common", "uncommon", "rare", "legendary">>

\* whether the mutation draws from the random source (random.choice, line 331)
Draws(action) == IF action.kind = "example" THEN 1 ELSE 0

\* action(): the working tree after the mutation
Mutate(action, tree, stream, pos) ==
    CASE action.kind = "write" ->
            WriteFile(tree, action.path, <<Chunk(action.msg, 0)>>)
      [] action.kind = "append" ->
            AppendFile(tree, action.path, <<Chunk(action.msg, 0)>>)
      [] action.kind = "example" ->
            WriteFile(tree, action.path,
                      <<Chunk(action.msg, 1 + RandBelow(stream, pos, Len(Rarities)))>>)
      [] action.kind = "rewrite" ->
            WriteFile(tree, action.path, ReadText(tree, action.path))

\* phase_init_commits(), lines 100-248
phase_init_commits == <<
    W("docs: add README with project overview", "README.md"),
    W("docs: add MIT license", "LICENSE"),
    W("feat: add package.json with Next.js and tooling", "package.json"),
    W("chore: add tsconfig for strict TypeScript", "tsconfig.json"),
    W("chore: add Next.js config", "next.config.js"),
    W("feat: create basic home page", "app/page.tsx"),
    W("feat: add WalletConnector component", "components/WalletConnector.tsx"),
    W("chore: add editorconfig", ".editorconfig"),
    W("chore: add prettier config", ".prettierrc"),
    W("docs: add initial architecture doc", "docs/architecture.md"),
    W("docs: add contributing guide", "CONTRIBUTING.md"),
    R("chore: ensure .gitignore present and correct", GitignorePath) >>

\* phase_core_commits(), lines 251-350
phase_core_commits == <<
    W("feat: add ERC-721 NFTCollection with batchMint", "contracts/NFTCollection.sol"),
    W("feat: add UploadForm component for metadata input", "components/UploadForm.tsx"),
    W("feat: add metadata helper utilities", "lib/metadata.ts"),
    W("docs: document NFT contracts", "docs/contracts.md"),
    W("chore: add script to generate sample metadata", "scripts/generate_metadata.ts") >>
    \o [i \in 1..NumExamples |->
          X("docs: add metadata example #" \o Pad2(i),
            "examples/metadata/example_" \o Pad2(i) \o ".json")]

\* phase_test_commits(), lines 353-389
phase_test_commits == <<
    W("test: add high-level test plan for contracts", "test/contracts/NFTCollection.test.md"),
    W("chore: add jest config for UI tests", "jest.config.js"),
    W("test: add UploadForm smoke test", "components/__tests__/UploadForm.test.tsx"),
    A("docs: expand architecture with testing strategy", "docs/architecture.md") >>
    \o [i \in 1..NumTestCases |->
          A("test: enumerate metadata validation case " \o ToString(i), "test/TEST_PLAN.md")]

\* phase_docs_commits(), lines 392-468
phase_docs_commits == <<
    A("docs: add getting started to README", "README.md"),
    W("docs: add security policy", "SECURITY.md"),
    W("docs: add code of conduct", "CODE_OF_CONDUCT.md"),
    W("docs: start changelog", "CHANGELOG.md"),
    W("docs: add bug report template", ".github/ISSUE_TEMPLATE/bug_report.md"),
    W("docs: add feature request template", ".github/ISSUE_TEMPLATE/feature_request.md"),
    A("docs: expand contracts documentation on security", "docs/contracts.md"),
    A("docs: add roadmap to README", "README.md"),
    W("docs: add deployment guide", "docs/deployment.md"),
    W("docs: add usage guide", "docs/usage.md"),
    A("docs: update changelog with 0.1.0", "CHANGELOG.md"),
    W("docs: add troubleshooting guide", "docs/troubleshooting.md"),
    A("docs: add license section to README", "README.md") >>

Phase(start, end, commits) == [start |-> start, end |-> end, commits |-> commits]

\* the list phases of main(), lines 482-487
FixedPhases == <<
    Phase(Date(2024, 2, 1), Date(2024, 3, 31), phase_init_commits),
    Phase(Date(2024, 4, 1), Date(2024, 7, 31), phase_core_commits),
    Phase(Date(2024, 8, 1), Date(2024, 9, 30), phase_test_commits),
    Phase(Date(2024, 10, 1), Date(2024, 10, 31), phase_docs_commits) >>

(***************************************************************************)
(* Other phase lists the loop of main() is run with: main() iterates over  *)
(* whatever phases holds, and the threshold of its check is a literal.     *)
(***************************************************************************)
\* three phases, the middle one without actions; the last window is shorter
\* than its number of actions, so its times are clamped
GapPhases == <<
    Phase(Date(2024, 2, 1), Date(2024, 2, 10),
          << W("first", "a.txt"), W("second", "b.txt") >>),
    Phase(Date(2024, 2, 11), Date(2024, 2, 20), << >>),
    Phase(Date(2024, 2, 27), Date(2024, 3, 1),
          << W("third", "c.txt"), A("fourth", "c.txt"),
             W("fifth", "d.txt"), A("sixth", "a.txt") >>) >>

\* one phase whose second action repeats the first
RepeatPhases == <<
    Phase(Date(2024, 2, 1), Date(2024, 2, 10),
          << W("first", "a.txt"), W("first", "a.txt") >>) >>

\* one phase of n actions, each writing a file of its own
DistinctPhases(n) == <<
    Phase(Date(2024, 2, 1), Date(2024, 2, 10),
          [i \in 1..n |-> W("change " \o ToString(i), "f" \o ToString(i) \o ".txt")]) >>

DistinctReg(n) == "distinct" \o ToString(n)

DistinctRegs == {DistinctReg(n) : n \in 1..MaxDistinct}

Phases(reg) ==
    CASE reg = "fixed" -> FixedPhases
      [] reg = "gap" -> GapPhases
      [] reg = "repeat" -> RepeatPhases
      [] OTHER -> DistinctPhases(CHOOSE n \in 1..MaxDistinct : reg = DistinctReg(n))

PrimaryName == "nanonkt001"

Row(username) ==
    [username |-> username, email |-> username \o "@example.com",
     token |-> "token-of-" \o username]

\* the rows of github_accounts.csv: n rows, the first one the primary account
\* when with_primary
Rows(n, with_primary) ==
    [i \in 1..n |->
        IF i = 1 /\ with_primary THEN Row(PrimaryName) ELSE Row("user" \o ToString(i))]

\* rows of which the last two have the same username and different e-mail
\* addresses: read_accounts checks nothing but the number of rows
DuplicateRows ==
    Append(Rows(2, TRUE),
           [username |-> "user2", email |-> "user2@alt.example.com",
            token |-> "token-of-user2-alt"])

Csvs == {Rows(n, TRUE) : n \in 0..MaxPool} \cup {Rows(2, FALSE), DuplicateRows}

\* REPO_DIR holds no .gitignore, one with LF line ends, or one with CR LF
GitignoreKinds == {"none", "lf", "crlf"}

Setups ==
    [reg : {"fixed"}, threshold : {Threshold}, csv : Csvs, stream : Streams,
     gitignore : GitignoreKinds]
    \cup
    [reg : {"gap", "repeat"} \cup DistinctRegs, threshold : {0, 1}, csv : Csvs,
     stream : Streams, gitignore : GitignoreKinds]

\* REPO_DIR before the first run: the script itself and, possibly, a .gitignore
InitialTree(s) ==
    LET script == WriteFile(EmptyTree, ScriptPath, <<Chunk(ScriptPath, 0)>>)
    IN CASE s.gitignore = "lf" -> WriteFile(script, GitignorePath, UserGitignore)
         [] s.gitignore = "crlf" -> WriteFile(script, GitignorePath, UserGitignoreCrlf)
         [] OTHER -> script

NoError == [kind |-> "none", detail |-> "", cnt |-> 0]
Error(kind, detail, cnt) == [kind |-> kind, detail |-> detail, cnt |-> cnt]

NoEnv == [author_date |-> "unset", committer_date |-> "unset",
          name |-> "unset", email |-> "unset"]
NoRemote == [origin |-> "none", main |-> FALSE, master |-> FALSE]

(***************************************************************************)
(* dates_between with the draws taken from the seeded source, as main()    *)
(* calls it (lines 489-492).  A result is [dates, pos]: the list and the   *)
(* number of draws taken so far.                                           *)
(***************************************************************************)
RECURSIVE DatesLoop(_, _, _, _, _, _, _, _)
DatesLoop(stream, pos, i, count, current, step, end_dt, dates) ==
    IF i >= count THEN [dates |-> dates, pos |-> pos]
    ELSE LET h == RandInt(stream, pos, HourLo, HourHi)
             m == RandInt(stream, pos + 1, MinuteLo, MinuteHi)
             over == Overshoots(current, end_dt, h, m)
             b == IF over THEN RandInt(stream, pos + 2, BackoffLo, BackoffHi)
                  ELSE BackoffLo
             dt == JitteredDate(current, end_dt, h, m, b)
         IN DatesLoop(stream, IF over THEN pos + 3 ELSE pos + 2, i + 1, count,
                      current + step * MinutesPerDay, step, end_dt,
                      Append(dates, dt))

dates_between(stream, pos, start, end, count) ==
    IF ReturnsEmpty(count) THEN [dates |-> <<>>, pos |-> pos]
    ELSE LET r == DatesLoop(stream, pos, 0, count, FirstCurrent(start),
                            Step(TotalDays(start, end), count), Strptime(end), <<>>)
         IN [dates |-> Sort(r.dates), pos |-> r.pos]

\* lines 490-492: phase_dates, and the draws taken
RECURSIVE PhaseDates(_, _, _, _, _)
PhaseDates(stream, pos, phases, k, acc) ==
    IF k > Len(phases) THEN [dates |-> acc, pos |-> pos]
    ELSE LET r == dates_between(stream, pos, phases[k].start, phases[k].end,
                                Len(phases[k].commits))
         IN PhaseDates(stream, r.pos, phases, k + 1, Append(acc, r.dates))

(***************************************************************************)
(* main()                                                                  *)
(***************************************************************************)
NumPhases == Len(Phases(setup.reg))
CurrentPhase == Phases(setup.reg)[p_idx]

Usernames(rows) == {rows[i].username : i \in 1..Len(rows)}

PickFirstAuthor(rows, index) == rows[1]

PickAuthorFromSecond(rows, index) == rows[((index + 1) % Len(rows)) + 1]

PickAuthorPerPhase(rows, index) == rows[((c_idx - 1) % Len(rows)) + 1]

\* line 505: accounts[author_index % len(accounts)]
PickAuthor(rows, index) == rows[(index % Len(rows)) + 1]

StagedAlways(tree, committed) == TRUE

\* git add -A; git diff --cached --quiet --exit-code returns non-zero
StagedNonEmpty(tree, committed) == tree # committed

ViolatesNonStrict(cnt, threshold) == cnt < threshold

\* line 515: if cnt <= 13
Violates(cnt, threshold) == cnt <= threshold

ViolatorsNone(rows, counts, threshold) == {}

\* lines 514-516: the indices (in pool order) of the rows whose author violates
Violators(rows, counts, threshold) ==
    {i \in 1..Len(rows) : Violates(counts[rows[i].username], threshold)}

Greatest(S) == CHOOSE x \in S : \A y \in S : x >= y

Least(S) == CHOOSE x \in S : \A y \in S : x <= y

\* line 30: len(accounts) < 2
TooFewAccounts(rows) == Len(rows) < 2

\* lines 472-473: random.seed(1337); ensure_initial_gitignore()
EnsureGitignore ==
    /\ pc = "start"
    /\ rng' = Seed(rng)
    /\ worktree' = ensure_initial_gitignore(worktree)
    /\ pc' = "read_accounts"
    /\ UNCHANGED <<run, setup, head, accounts, phase_dates, author_counts, author_index,
                   p_idx, c_idx, calls, history, git_env, remote, pub_log, err>>
    /\ UNCHANGED sched_vars

\* line 474 and read_accounts, lines 22-31
ReadAccounts ==
    /\ pc = "read_accounts"
    /\ IF TooFewAccounts(setup.csv)
       THEN /\ pc' = "error"
            /\ err' = Error("TooFewAccounts", "Need at least two accounts", Len(setup.csv))
            /\ UNCHANGED accounts
       ELSE /\ pc' = "schedule"
            /\ accounts' = setup.csv
            /\ UNCHANGED err
    /\ UNCHANGED <<run, setup, worktree, head, rng, phase_dates, author_counts,
                   author_index, p_idx, c_idx, calls, history, git_env, remote, pub_log>>
    /\ UNCHANGED sched_vars

\* lines 476-496: the phases, their dates, the counters
Schedule ==
    /\ pc = "schedule"
    /\ LET r == PhaseDates(setup.stream, rng, Phases(setup.reg), 1, <<>>)
       IN /\ phase_dates' = r.dates
          /\ rng' = r.pos
    /\ author_counts' = [u \in Usernames(accounts) |-> 0]
    /\ author_index' = 0
    /\ p_idx' = 1
    /\ c_idx' = 1
    /\ pc' = "loop"
    /\ UNCHANGED <<run, setup, worktree, head, accounts, calls, history, git_env,
                   remote, pub_log, err>>
    /\ UNCHANGED sched_vars

\* the commands of commit_all that run() may see fail
FailPoints(staged) ==
    {"none", "git config", "git add"} \cup (IF staged THEN {"git commit"} ELSE {})

RaisesNever(fail) == FALSE

RaisesInCommitAllOnly(fail) == fail \in {"git config", "git add", "git commit"}

\* lines 18-19: subprocess.run(..., check=True) raises CalledProcessError when
\* the command exits non-zero, and nothing in main() catches it
Raises(fail) == fail # "none"

\* lines 501-511 with commit_all, lines 39-49: one action of the current phase
Act ==
    /\ pc = "loop"
    /\ p_idx <= NumPhases
    /\ c_idx <= Len(CurrentPhase.commits)
    /\ LET action == CurrentPhase.commits[c_idx]
           tree == Mutate(action, worktree, setup.stream, rng)
           author == PickAuthor(accounts, author_index)
           when == phase_dates[p_idx][c_idx]
           stamp == Strftime(when)
           staged == StagedNonEmpty(tree, head)
       IN \E fail \in FailPoints(staged) :
            /\ worktree' = tree
            /\ rng' = rng + Draws(action)
            /\ author_index' = author_index + 1
            /\ git_env' = IF fail = "git config"
                          THEN [git_env EXCEPT !.author_date = stamp,
                                               !.committer_date = stamp]
                          ELSE [author_date |-> stamp, committer_date |-> stamp,
                                name |-> author.username, email |-> author.email]
            /\ calls' = Append(calls,
                   [p |-> p_idx, c |-> c_idx, msg |-> action.msg,
                    name |-> author.username, email |-> author.email, when |-> when,
                    staged |-> staged, failed |-> fail,
                    committed |-> (fail = "none" /\ staged)])
            /\ IF Raises(fail)
               THEN /\ pc' = "error"
                    /\ err' = Error("CalledProcessError", fail, 0)
                    /\ UNCHANGED <<head, history, author_counts, c_idx>>
               ELSE /\ c_idx' = c_idx + 1
                    /\ UNCHANGED <<pc, err>>
                    /\ IF staged
                       THEN /\ head' = tree
                            /\ history' = Append(history,
                                  [msg |-> action.msg, name |-> author.username,
                                   email |-> author.email,
                                   author_time |-> GitTime(stamp),
                                   committer_time |-> GitTime(stamp)])
                            /\ author_counts' =
                                  [author_counts EXCEPT ![author.username] = @ + 1]
                       ELSE UNCHANGED <<head, history, author_counts>>
    /\ UNCHANGED <<run, setup, accounts, phase_dates, p_idx, remote, pub_log>>
    /\ UNCHANGED sched_vars

\* line 499: the outer loop moves to the next phase
NextPhase ==
    /\ pc = "loop"
    /\ p_idx <= NumPhases
    /\ c_idx > Len(CurrentPhase.commits)
    /\ p_idx' = p_idx + 1
    /\ c_idx' = 1
    /\ UNCHANGED <<run, pc, setup, worktree, head, accounts, rng, phase_dates,
                   author_counts, author_index, calls, history, git_env, remote,
                   pub_log, err>>
    /\ UNCHANGED sched_vars

FirstPhaseDone == p_idx > 1

\* lines 499-513: the loop over the phases has ended
AllPhasesDone == p_idx > NumPhases

\* lines 513-516: every author must have more than the threshold
Check ==
    /\ pc = "loop"
    /\ AllPhasesDone
    /\ LET bad == Violators(accounts, author_counts, setup.threshold)
       IN IF bad = {}
          THEN /\ pc' = "origin_url"
               /\ UNCHANGED err
          ELSE /\ pc' = "error"
               /\ err' = Error("AuthorCount", accounts[Least(bad)].username,
                               author_counts[accounts[Least(bad)].username])
    /\ UNCHANGED <<run, setup, worktree, head, accounts, rng, phase_dates,
                   author_counts, author_index, p_idx, c_idx, calls, history, git_env,
                   remote, pub_log>>
    /\ UNCHANGED sched_vars

(***************************************************************************)
(* Publishing, lines 518-537.  An error kind is the place of the raise:    *)
(* TooFewAccounts (RuntimeError, line 30), AuthorCount (RuntimeError,      *)
(* line 516), StopIteration (line 519), CalledProcessError (run, line 19). *)
(***************************************************************************)
HasPrimary(rows) == \E i \in 1..Len(rows) : rows[i].username = PrimaryName

\* line 519: next(a for a in accounts if a['username'] == 'nanonkt001')
Primary(rows) ==
    rows[Least({i \in 1..Len(rows) : rows[i].username = PrimaryName})]

\* line 521
OriginUrl(token) == "https://" \o token \o "@github.com/nanonkt001/MintLite.git"

Published(step) == pub_log' = Append(pub_log, step)

Fails(cmd) ==
    /\ pc' = "error"
    /\ err' = Error("CalledProcessError", cmd, 0)

\* lines 519-521
BuildOriginUrl ==
    /\ pc = "origin_url"
    /\ IF HasPrimary(accounts)
       THEN /\ Published("origin_url")
            /\ pc' = "remote"
            /\ UNCHANGED err
       ELSE /\ pc' = "error"
            /\ err' = Error("StopIteration", PrimaryName, 0)
            /\ UNCHANGED pub_log
    /\ UNCHANGED <<run, setup, worktree, head, accounts, rng, phase_dates,
                   author_counts, author_index, p_idx, c_idx, calls, history, git_env,
                   remote>>
    /\ UNCHANGED sched_vars

\* lines 524-528
SetRemote ==
    /\ pc = "remote"
    /\ \/ /\ Published(IF remote.origin = "none" THEN "git remote add"
                       ELSE "git remote set-url")
          /\ remote' = [remote EXCEPT !.origin = OriginUrl(Primary(accounts).token)]
          /\ pc' = "branch"
          /\ UNCHANGED err
       \/ /\ Fails("git remote")
          /\ UNCHANGED <<remote, pub_log>>
    /\ UNCHANGED <<run, setup, worktree, head, accounts, rng, phase_dates,
                   author_counts, author_index, p_idx, c_idx, calls, history, git_env>>
    /\ UNCHANGED sched_vars

\* line 531
ForceBranch ==
    /\ pc = "branch"
    /\ \/ /\ Published("git branch -f master main")
          /\ pc' = "push_author"
          /\ UNCHANGED err
       \/ /\ Fails("git branch")
          /\ UNCHANGED pub_log
    /\ UNCHANGED <<run, setup, worktree, head, accounts, rng, phase_dates,
                   author_counts, author_index, p_idx, c_idx, calls, history, git_env,
                   remote>>
    /\ UNCHANGED sched_vars

\* line 533
SetPushAuthor ==
    /\ pc = "push_author"
    /\ \/ /\ git_env' = [git_env EXCEPT !.name = Primary(accounts).username,
                                        !.email = Primary(accounts).email]
          /\ pc' = "push_main"
          /\ UNCHANGED err
       \/ /\ Fails("git config")
          /\ UNCHANGED git_env
    /\ UNCHANGED <<run, setup, worktree, head, accounts, rng, phase_dates,
                   author_counts, author_index, p_idx, c_idx, calls, history, remote,
                   pub_log>>
    /\ UNCHANGED sched_vars

\* line 534
PushMain ==
    /\ pc = "push_main"
    /\ \E fail \in {"none", "git push main"} :
          /\ IF fail = "none"
             THEN /\ Published("git push main")
                  /\ remote' = [remote EXCEPT !.main = TRUE]
             ELSE UNCHANGED <<remote, pub_log>>
          /\ IF Raises(fail)
             THEN Fails(fail)
             ELSE /\ pc' = "push_master"
                  /\ UNCHANGED err
    /\ UNCHANGED <<run, setup, worktree, head, accounts, rng, phase_dates,
                   author_counts, author_index, p_idx, c_idx, calls, history, git_env>>
    /\ UNCHANGED sched_vars

\* lines 535-537
PushMaster ==
    /\ pc = "push_master"
    /\ \E fail \in {"none", "git push master"} :
          /\ IF fail = "none"
             THEN /\ Published("git push master")
                  /\ remote' = [remote EXCEPT !.master = TRUE]
             ELSE UNCHANGED <<remote, pub_log>>
          /\ IF Raises(fail)
             THEN Fails(fail)
             ELSE /\ pc' = "done"
                  /\ UNCHANGED err
    /\ UNCHANGED <<run, setup, worktree, head, accounts, rng, phase_dates,
                   author_counts, author_index, p_idx, c_idx, calls, history, git_env>>
    /\ UNCHANGED sched_vars

\* the script is invoked again, after a run that went through all its phases,
\* on the repository that run left
Rerun ==
    /\ \/ pc = "done"
       \/ pc = "error" /\ err.kind = "AuthorCount"
    /\ run < MaxRuns
    /\ run' = run + 1
    /\ pc' = "start"
    /\ accounts' = <<>>
    /\ rng' \in StartPositions
    /\ phase_dates' = <<>>
    /\ author_counts' = <<>>
    /\ author_index' = 0
    /\ p_idx' = 0
    /\ c_idx' = 0
    /\ calls' = <<>>
    /\ history' = <<>>
    /\ git_env' = [git_env EXCEPT !.author_date = "unset", !.committer_date = "unset"]
    /\ pub_log' = <<>>
    /\ err' = NoError
    /\ UNCHANGED <<setup, worktree, head, remote>>
    /\ UNCHANGED sched_vars

Init ==
    /\ SchedIdle
    /\ run = 1
    /\ pc = "start"
    /\ setup \in Setups
    /\ worktree = InitialTree(setup)
    /\ head = EmptyTree
    /\ accounts = <<>>
    /\ rng \in StartPositions
    /\ phase_dates = <<>>
    /\ author_counts = <<>>
    /\ author_index = 0
    /\ p_idx = 0
    /\ c_idx = 0
    /\ calls = <<>>
    /\ history = <<>>
    /\ git_env = NoEnv
    /\ remote = NoRemote
    /\ pub_log = <<>>
    /\ err = NoError

Next ==
    \/ EnsureGitignore
    \/ ReadAccounts
    \/ Schedule
    \/ Act
    \/ NextPhase
    \/ Check
    \/ BuildOriginUrl
    \/ SetRemote
    \/ ForceBranch
    \/ SetPushAuthor
    \/ PushMain
    \/ PushMaster
    \/ Rerun

Spec == Init /\ [][Next]_vars

(***************************************************************************)
(* Properties                                                              *)
(***************************************************************************)
RECURSIVE ActionsIn(_, _)
\* the number of actions of the first n phases
ActionsIn(phases, n) ==
    IF n <= 0 THEN 0 ELSE ActionsIn(phases, n - 1) + Len(phases[n].commits)

\* the number of actions that precede action c of phase p in the whole run
ActionsBefore(p, c) == ActionsIn(Phases(setup.reg), p - 1) + (c - 1)

TotalActions == ActionsIn(Phases(setup.reg), NumPhases)

InPublisher == pc \in {"remote", "branch", "push_author", "push_main", "push_master", "done"}

AllAboveThreshold ==
    \A i \in 1..Len(accounts) : author_counts[accounts[i].username] > setup.threshold

\* C1: a publishing step (the origin URL, git remote add/set-url, git branch -f,
\* either push) is taken only when every phase has been processed and every
\* identity of the pool has more commits than the threshold.
C1_PublishOnlyAfterCheckOk ==
    (pub_log # <<>> \/ InPublisher)
        => /\ p_idx > NumPhases
           /\ Len(calls) = TotalActions
           /\ AllAboveThreshold

C1_Witness ==
    /\ pc = "done"
    /\ pub_log = <<"origin_url", "git remote add", "git branch -f master main",
                   "git push main", "git push master">>

\* C2: the check of lines 513-516 passes exactly when every identity of the pool
\* has a counter strictly greater than the threshold, and raises otherwise; a
\* counter equal to the threshold is a violation.
C2_CheckOkIffAllAbove ==
    [][(pc = "loop" /\ p_idx > NumPhases)
          => /\ (pc' = "origin_url") <=> AllAboveThreshold
             /\ (pc' = "error" /\ err'.kind = "AuthorCount") <=> ~AllAboveThreshold]_vars

C2_Witness ==
    /\ pc = "error"
    /\ err.kind = "AuthorCount"
    /\ err.cnt = setup.threshold

RECURSIVE SumOver(_, _)
SumOver(f, S) ==
    IF S = {} THEN 0
    ELSE LET x == CHOOSE y \in S : TRUE IN f[x] + SumOver(f, S \ {x})

CountSum(counts) == SumOver(counts, DOMAIN counts)

\* a step that performs one action of a phase (one call of commit_all)
IsActStep == pc = "loop" /\ Len(calls') = Len(calls) + 1

\* C3: an action whose mutation leaves nothing staged (the working tree equals
\* the last commit) creates no commit and increments no counter; every action
\* creates at most one commit and as many increments as commits; so an action
\* repeated right after itself with identical content, the first having
\* committed, adds nothing: one commit and one increment for the two.
C3_IdempotentSkip ==
    [][IsActStep
          => /\ (worktree' = head)
                   => /\ history' = history
                      /\ author_counts' = author_counts
                      /\ head' = head
             /\ Len(history') - Len(history) \in {0, 1}
             /\ CountSum(author_counts') - CountSum(author_counts)
                   = Len(history') - Len(history)
             /\ ( /\ calls # <<>>
                  /\ calls[Len(calls)].msg = calls'[Len(calls')].msg
                  /\ calls[Len(calls)].committed
                  /\ calls'[Len(calls')].failed = "none"
                  /\ worktree' = worktree )
                   => /\ history' = history
                      /\ author_counts' = author_counts]_vars

C3_Witness ==
    /\ Len(calls) = 2
    /\ calls[1].msg = calls[2].msg
    /\ calls[1].committed
    /\ ~calls[2].staged
    /\ calls[2].failed = "none"
    /\ Len(history) = 1
    /\ CountSum(author_counts) = 1

\* C4: the k-th action of the whole run (counted across phases) is attributed to
\* pool[k mod len(pool)], k from 0, and author_index is the number of actions
\* performed so far, committed or skipped.
C4_RoundRobinAcrossPhases ==
    /\ author_index = Len(calls)
    /\ \A k \in 1..Len(calls) :
          /\ ActionsBefore(calls[k].p, calls[k].c) = k - 1
          /\ calls[k].name = accounts[((k - 1) % Len(accounts)) + 1].username

C4_Witness ==
    /\ Len(calls) > Len(accounts)
    /\ \E k \in 1..Len(calls) : calls[k].p >= 2 /\ calls[k].c > 1
    /\ \E k \in 1..Len(calls) : ~calls[k].committed /\ k < Len(calls)
    /\ \E k \in 1..Len(calls) : calls[k].committed

Selected(i) ==
    Cardinality({k \in 1..Len(calls) : /\ calls[k].name = accounts[i].username
                                       /\ calls[k].email = accounts[i].email})

\* C5: after k actions with a pool of m identities every identity has been
\* selected floor(k/m) or ceil(k/m) times.
C5_RotationFairness ==
    \A i \in 1..Len(accounts) :
        LET k == Len(calls)
            m == Len(accounts)
        IN Selected(i) \in {k \div m, (k + m - 1) \div m}

C5_Witness ==
    /\ Len(accounts) >= 3
    /\ Len(calls) > 2 * Len(accounts)
    /\ Len(calls) % Len(accounts) # 0

\* C6: the list returned by dates_between is in non-decreasing order, whatever
\* the jitter and the backoff drawn, clamped times included.
C6_Monotonic ==
    s_pc = "returned"
        => \A i \in 1..(Len(s_result) - 1) : s_result[i] <= s_result[i + 1]

C6_Witness ==
    /\ s_pc = "returned"
    /\ \E i \in 1..(Len(s_dates) - 1) : s_dates[i] > s_dates[i + 1]
    /\ \E i \in 1..(Len(s_result) - 1) : s_result[i] = s_result[i + 1]

\* C7: for start < end every time t returned by dates_between satisfies
\* start < t <= end, for every count >= 1, also when count exceeds the number
\* of days of the window, and for every hour jitter in 9..20, minute jitter in
\* 0..59 and backoff in 1..6.
C7_Bounded ==
    /\ (s_pc = "returned" /\ Ordinal(s_start) < Ordinal(s_end))
          => \A i \in 1..Len(s_result) :
                /\ Strptime(s_start) < s_result[i]
                /\ s_result[i] <= Strptime(s_end)
    \* on entering the loop: every iteration, with the jitter ranges in full
    /\ (s_pc = "loop" /\ s_i = 0 /\ Ordinal(s_start) < Ordinal(s_end))
          => \A i \in 0..(s_count - 1) :
                \A h \in HourLo..HourHi, m \in MinuteLo..MinuteHi, b \in Backoffs :
                   LET dt == JitteredDate(s_current + i * s_step * MinutesPerDay,
                                          Strptime(s_end), h, m, b)
                   IN Strptime(s_start) < dt /\ dt <= Strptime(s_end)

C7_Witness ==
    /\ s_pc = "returned"
    /\ Ordinal(s_start) < Ordinal(s_end)
    /\ s_count > TotalDays(s_start, s_end)
    /\ \E i \in 1..Len(s_result) :
          s_result[i] = Strptime(s_end) - BackoffHi * MinutesPerHour
    /\ \E i \in 1..Len(s_result) :
          s_result[i] = Strptime(s_end) - BackoffLo * MinutesPerHour

(***************************************************************************)
(* The program entered either way: a call of dates_between with arbitrary  *)
(* jitter, or a run of main().                                             *)
(***************************************************************************)
AllInit == Init \/ SchedInit

AllNext == Next \/ SchedNext

AllSpec == AllInit /\ [][AllNext]_vars

\* C8: dates_between returns exactly count times for count >= 0 and the empty
\* list for count = 0; in main() every phase gets as many times as it has
\* actions, and a phase without actions is passed without an error and without
\* advancing author_index: in the loop author_index is the number of actions
\* that precede the current position.
C8_CountTimestamps ==
    /\ s_pc = "returned"
          => /\ Len(s_result) = s_count
             /\ (s_count = 0 => s_result = <<>>)
    /\ pc = "loop"
          => /\ Len(phase_dates) = NumPhases
             /\ \A p \in 1..NumPhases :
                   Len(phase_dates[p]) = Len(Phases(setup.reg)[p].commits)
             /\ err = NoError
             /\ p_idx <= NumPhases => author_index = ActionsBefore(p_idx, c_idx)
             /\ p_idx > NumPhases => author_index = TotalActions

C8_Witness ==
    /\ pc = "loop"
    /\ setup.reg = "gap"
    /\ phase_dates[2] = <<>>
    /\ p_idx = 3
    /\ c_idx = 2
    /\ author_index = 3

\* C9: when the accounts file has fewer than 2 rows the run fails before any
\* mutation: at the raise no file of the repository has been written and no
\* commit attempted.
C9_NoMutationBeforeConfigError ==
    (pc = "error" /\ err.kind = "TooFewAccounts")
        => /\ worktree = InitialTree(setup)
           /\ calls = <<>>
           /\ history = <<>>

\* C10: a second run of main() over its four phases, on the repository the
\* first run left, creates no commit and increments no counter.
C10_RerunCreatesNothing ==
    (run >= 2 /\ setup.reg = "fixed")
        => /\ history = <<>>
           /\ \A u \in DOMAIN author_counts : author_counts[u] = 0

\* the number of commits that the first n calls of commit_all created
CommitsIn(n) == Cardinality({j \in 1..n : calls[j].committed})

\* C11: a command of commit_all that fails while action k is processed ends the
\* run at once: action k is the last one whose mutation was invoked, no counter
\* is checked and no publishing step is taken, nothing more happens, and the
\* commits made for the actions before k stay as they were (no rollback): the
\* failing step itself leaves the history, the last commit and the counters
\* untouched.
C11_FailFast ==
    /\ [](\A k \in 1..Len(calls) :
            calls[k].failed # "none"
               => /\ k = Len(calls)
                  /\ pc = "error"
                  /\ err.kind = "CalledProcessError"
                  /\ err.detail = calls[k].failed
                  /\ p_idx = calls[k].p /\ c_idx = calls[k].c
                  /\ pub_log = <<>>
                  /\ ~calls[k].committed
                  /\ Len(history) = CommitsIn(k - 1))
    /\ [][/\ (IsActStep /\ calls'[Len(calls')].failed # "none")
               => /\ history' = history
                  /\ head' = head
                  /\ author_counts' = author_counts
           /\ ~(pc = "error" /\ err.kind = "CalledProcessError")]_vars

C11_Witness ==
    /\ pc = "error"
    /\ err.kind = "CalledProcessError"
    /\ err.detail = "git commit"
    /\ Len(calls) >= 3
    /\ Len(calls) < TotalActions
    /\ Len(history) = Len(calls) - 1
    /\ worktree # head

\* the publishing steps of this run that succeeded include step
Logged(step) == \E i \in 1..Len(pub_log) : pub_log[i] = step

\* C12: the run ends successfully only after git push main and then git push
\* master both succeeded, in that order; the push of master is attempted only
\* after the push of main succeeded; when the push of main fails the run ends
\* there: master is not pushed and the successful end is never reached.
C12_DoneOnlyAfterBothPushes ==
    /\ [](/\ pc = "done"
              => /\ Len(pub_log) >= 2
                 /\ pub_log[Len(pub_log) - 1] = "git push main"
                 /\ pub_log[Len(pub_log)] = "git push master"
                 /\ remote.main /\ remote.master
                 /\ err = NoError
          /\ pc = "push_master" => pub_log[Len(pub_log)] = "git push main"
          /\ \A i \in 1..Len(pub_log) :
                pub_log[i] = "git push master"
                   => i > 1 /\ pub_log[i - 1] = "git push main"
          /\ (pc = "error" /\ err.detail = "git push main")
              => /\ err.kind = "CalledProcessError"
                 /\ ~Logged("git push main")
                 /\ ~Logged("git push master"))
    /\ [][~(pc = "error" /\ err.detail = "git push main")]_vars

C12_Witness ==
    /\ pc = "done"
    /\ remote.main /\ remote.master
    /\ Logged("git push main") /\ Logged("git push master")
    /\ err = NoError

\* the calls of commit_all that created a commit, in the order of the calls
CommittedCalls ==
    SelectSeq([k \in 1..Len(calls) |-> k], LAMBDA k : calls[k].committed)

\* the call of commit_all that created the j-th commit of this run
CallOfCommit(j) == CommittedCalls[j]

\* C13: every commit of the run was created by one action, and carries as
\* author time and as committer time the time scheduled for that action (the
\* entry of its phase's schedule at the action's index), the name and e-mail of
\* the identity the rotation gives to that action, and the action's message.
C13_CommitCarriesScheduledTime ==
    /\ Len(history) = Len(CommittedCalls)
    /\ LET created == CommittedCalls
       IN \A j \in 1..Len(history) :
             LET k == created[j]
                 p == calls[k].p
                 c == calls[k].c
                 who == accounts[(ActionsBefore(p, c) % Len(accounts)) + 1]
             IN /\ history[j].author_time = phase_dates[p][c]
                /\ history[j].committer_time = phase_dates[p][c]
                /\ history[j].name = who.username
                /\ history[j].email = who.email
                /\ history[j].msg = Phases(setup.reg)[p].commits[c].msg

C13_Witness ==
    /\ Len(history) >= 3
    /\ \E j \in 1..Len(history) :
          /\ CallOfCommit(j) > j
          /\ calls[CallOfCommit(j)].p >= 2
          /\ (history[j].author_time % MinutesPerDay) >= 13 * MinutesPerHour
          /\ (history[j].author_time % MinutesPerHour) # 0

\* C14: with a pool of two identities [A, B] and one phase of n actions that
\* each write a file of their own, on a fresh repository, every action
\* commits, the authors of the commits are A, B, A, B, ... in the order of the
\* commits, and the n actions give n commits; for n = 4 and threshold 1 both
\* counters are 2 when the phase is over and the check of the counters passes.
C14_EndToEndDistinct ==
    (run = 1 /\ setup.reg \in DistinctRegs /\ Len(accounts) = 2)
       => /\ \A k \in 1..Len(calls) :
                calls[k].failed = "none" => calls[k].staged /\ calls[k].committed
          /\ \A j \in 1..Len(history) :
                history[j].name = accounts[((j - 1) % 2) + 1].username
          /\ (pc = "loop" /\ p_idx > NumPhases) => Len(history) = TotalActions
          /\ (setup.reg = DistinctReg(4) /\ setup.threshold = 1 /\ p_idx > NumPhases)
                => /\ Len(history) = 4
                   /\ \A u \in DOMAIN author_counts : author_counts[u] = 2
                   /\ err.kind # "AuthorCount"
                   /\ pc = "loop" \/ pc = "origin_url" \/ pub_log # <<>>
                         \/ err.kind = "StopIteration"

C14_Witness ==
    /\ run = 1
    /\ setup.reg = DistinctReg(4)
    /\ setup.threshold = 1
    /\ Len(accounts) = 2
    /\ pc = "origin_url"
    /\ Len(history) = 4
    /\ history[1].name = accounts[1].username
    /\ history[2].name = accounts[2].username
    /\ history[3].name = accounts[1].username
    /\ history[4].name = accounts[2].username
    /\ \A u \in DOMAIN author_counts : author_counts[u] = 2

\* the skip scenario: two identities [A, B], one phase of two actions of which
\* the second writes again what the first wrote, on a fresh repository, and
\* both actions processed
SkipScenarioOver ==
    /\ run = 1
    /\ setup.reg = "repeat"
    /\ Len(accounts) = 2
    /\ p_idx > NumPhases

\* C15 as stated: in the skip scenario the check of the counters, with any
\* threshold >= 0, raises the violation for B.
C15_ViolationNamesB ==
    (SkipScenarioOver /\ pc # "loop")
       => /\ pc = "error"
          /\ err.kind = "AuthorCount"
          /\ err.detail = accounts[2].username

\* C15: in the skip scenario exactly one commit is created, by A; the action
\* attributed to B stages nothing and is skipped, B's counter stays 0 and A's
\* is 1; the check of the counters raises and no publishing step is taken.
\* The violation names B, with count 0, when the threshold is 0; with a
\* threshold >= 1 A violates too and the violation names A, with count 1, the
\* first violator in pool order.
C15_EndToEndSkip ==
    SkipScenarioOver
       => /\ Len(calls) = 2
          /\ Len(history) = 1
          /\ history[1].name = accounts[1].username
          /\ calls[2].name = accounts[2].username
          /\ ~calls[2].staged /\ ~calls[2].committed
          /\ author_counts[accounts[1].username] = 1
          /\ author_counts[accounts[2].username] = 0
          /\ pub_log = <<>>
          /\ remote = NoRemote
          /\ pc # "loop"
                => /\ pc = "error"
                   /\ err.kind = "AuthorCount"
                   /\ setup.threshold = 0
                         => err.detail = accounts[2].username /\ err.cnt = 0
                   /\ setup.threshold >= 1
                         => err.detail = accounts[1].username /\ err.cnt = 1

C15_Witness ==
    /\ SkipScenarioOver
    /\ setup.threshold = 0
    /\ pc = "error"
    /\ err.kind = "AuthorCount"
    /\ err.detail = accounts[2].username
    /\ Len(history) = 1

\* the commits of this run authored by the i-th identity of the pool
AuthoredBy(i) ==
    Cardinality({j \in 1..Len(history) : /\ history[j].name = accounts[i].username
                                         /\ history[j].email = accounts[i].email})

\* C16: in every state the counters add up to the number of commits created
\* so far in the run, and the counter of every identity of the pool is the
\* number of commits of the run that identity authored.
C16_CountersMatchCommits ==
    DOMAIN author_counts # {}
       => /\ CountSum(author_counts) = Len(history)
          /\ \A i \in 1..Len(accounts) :
                author_counts[accounts[i].username] = AuthoredBy(i)

\* the positions in the pool of the identities whose counter is at or below
\* the threshold
AtOrBelow == {i \in 1..Len(accounts) : author_counts[accounts[i].username] <= setup.threshold}

\* C17: when the check of the counters raises, the error names one identity:
\* the first one in pool order whose counter is at or below the threshold,
\* with the value of its counter, however many identities violate.
C17_FirstViolatorReported ==
    (pc = "error" /\ err.kind = "AuthorCount")
       => /\ AtOrBelow # {}
          /\ \E i \in AtOrBelow :
                /\ \A j \in AtOrBelow : i <= j
                /\ err.detail = accounts[i].username
                /\ err.cnt = author_counts[accounts[i].username]

C17_Witness ==
    /\ pc = "error"
    /\ err.kind = "AuthorCount"
    /\ Cardinality(AtOrBelow) >= 2
    /\ 1 \notin AtOrBelow
    /\ err.detail = accounts[2].username
    /\ err.cnt >= 1

\* the commits among the first k calls authored under the name u
CommitsOf(u, k) == Cardinality({j \in 1..k : calls[j].committed /\ calls[j].name = u})

\* the actions after the k-th that the rotation gives to the name u
TurnsLeft(u, k) ==
    Cardinality({j \in (k + 1)..TotalActions :
                    accounts[((j - 1) % Len(accounts)) + 1].username = u})

\* after k calls the counter of u can no longer exceed the threshold
CertainAfter(u, k) == CommitsOf(u, k) + TurnsLeft(u, k) <= setup.threshold

\* C18: the violation of the counters is raised only when every action of
\* every phase has been processed, each without a failure; while an action is
\* pending no counter has been compared (no error is raised, the run is still
\* in the loop), also when it is already certain that the counter of an
\* identity cannot exceed the threshold.
C18_ViolationOnlyAfterAllActions ==
    /\ []((err.kind = "AuthorCount")
             => /\ Len(calls) = TotalActions
                /\ p_idx > NumPhases
                /\ \A k \in 1..Len(calls) : calls[k].failed = "none")
    /\ []((pc = "loop" /\ Len(calls) < TotalActions) => err = NoError)
    /\ [][(err'.kind = "AuthorCount" /\ err.kind # "AuthorCount")
             => /\ pc = "loop"
                /\ Len(calls) = TotalActions
                /\ calls' = calls]_vars

C18_Witness ==
    /\ pc = "error"
    /\ err.kind = "AuthorCount"
    /\ NumPhases >= 2
    /\ Len(calls) = TotalActions
    /\ \E k \in 1..(TotalActions - 2) :
          /\ calls[k].p = 1
          /\ CertainAfter(err.detail, k)

\* the schedule as a function of the seeded stream and the phase definitions
\* alone: the times of all phases drawn from the start of the stream
ScheduleTable ==
    [stream \in Streams |->
        [reg \in {"fixed", "gap", "repeat"} \cup DistinctRegs |->
            PhaseDates(stream, 0, Phases(reg), 1, <<>>).dates]]

ScheduleOf(stream, reg) == ScheduleTable[stream][reg]

\* C19: the times given to the actions are a function of the seeded stream
\* and of the phase definitions only: in every run (a first run or a run on
\* the repository an earlier run left, with any accounts file, with or
\* without a .gitignore, wherever the generator stood before the seeding)
\* the schedule, and the time passed to commit_all for every action,
\* committed, skipped or failed, is the one drawn from the start of the
\* stream; the mutators draw only after all schedules are fixed.  Any two
\* runs with the same seed therefore assign identical times.
C19_ScheduleDeterministic ==
    /\ pc \in {"start", "read_accounts", "schedule"} => calls = <<>>
    /\ phase_dates # <<>> => phase_dates = ScheduleOf(setup.stream, setup.reg)
    /\ \A k \in 1..Len(calls) : calls[k].when = phase_dates[calls[k].p][calls[k].c]

C19_Witness ==
    /\ run = 2
    /\ setup.reg = "fixed"
    /\ Len(calls) = TotalActions
    /\ rng > TotalActions
    /\ \E k \in 1..Len(calls) : calls[k].committed
    /\ \E k \in 1..Len(calls) : ~calls[k].staged
    /\ phase_dates = ScheduleOf(setup.stream, setup.reg)

\* the windows of the phases are disjoint and listed in chronological order
WindowsOrdered(phases) ==
    \A p \in 1..(Len(phases) - 1) : Ordinal(phases[p].end) < Ordinal(phases[p + 1].start)

\* C20: when the windows of the phases are disjoint and in chronological
\* order, the commits of a run are created in non-decreasing order of their
\* timestamps: every commit carries a time at or after the time of every
\* commit created before it in the run, within a phase, from one phase to the
\* next, and with skipped actions in between.  Stated in every state for the
\* newest commit against all the earlier ones: every commit is the newest one
\* in the state its creation leads to.
C20_CommitsInTimeOrder ==
    WindowsOrdered(Phases(setup.reg))
       => LET j == Len(history)
          IN \A i \in 1..(j - 1) :
                /\ history[i].author_time <= history[j].author_time
                /\ history[i].committer_time <= history[j].committer_time

C20_Witness ==
    /\ WindowsOrdered(Phases(setup.reg))
    /\ NumPhases >= 3
    /\ Len(history) >= 4
    /\ \E j \in 1..(Len(history) - 1) :
          /\ calls[CallOfCommit(j)].p < calls[CallOfCommit(j + 1)].p
          /\ CallOfCommit(j + 1) > CallOfCommit(j) + 1
          /\ history[j].author_time < history[j + 1].author_time

\* the calendar day (as an ordinal) of a datetime
DayOf(dt) == FloorDiv(dt, MinutesPerDay)

\* the call of dates_between has a count of at least 1 and below the number
\* of days of the window
FewerThanDays == 1 <= s_count /\ s_count < TotalDays(s_start, s_end)

\* C21: when count is below the number of days from start to end no time is
\* clamped: the i-th time appended (i from 0) lies on day start + 1 + i * step,
\* step = max(1, total_days // count), at its jittered hour and minute, the
\* times appended are on distinct days and strictly increasing, so the final
\* sort changes nothing; a clamped time occurs only with count >= total_days.
\* The second conjunct takes the hour and minute ranges in full.
C21_NoClampBelowDays ==
    /\ (s_pc \in {"loop", "returned"} /\ FewerThanDays)
          => /\ s_step = Max(1, TotalDays(s_start, s_end) \div s_count)
             /\ \A i \in 1..Len(s_dates) :
                   /\ DayOf(s_dates[i]) = Ordinal(s_start) + 1 + (i - 1) * s_step
                   /\ (s_dates[i] % MinutesPerDay) >= HourLo * MinutesPerHour
                   /\ (s_dates[i] % MinutesPerDay) <= HourHi * MinutesPerHour + MinuteHi
                   /\ s_dates[i] < Strptime(s_end)
             /\ \A i \in 1..(Len(s_dates) - 1) :
                   /\ s_dates[i] < s_dates[i + 1]
                   /\ DayOf(s_dates[i]) < DayOf(s_dates[i + 1])
             /\ s_pc = "returned" => s_result = s_dates
    /\ (s_pc = "loop" /\ s_i = 0 /\ FewerThanDays)
          => \A i \in 0..(s_count - 1) :
                \A h \in HourLo..HourHi, m \in MinuteLo..MinuteHi :
                   ~Overshoots(s_current + i * s_step * MinutesPerDay,
                               Strptime(s_end), h, m)
    /\ (\E i \in 1..Len(s_dates) :
            DayOf(s_dates[i]) # Ordinal(s_start) + 1 + (i - 1) * s_step)
          => s_count >= TotalDays(s_start, s_end)

C21_Witness ==
    /\ s_pc = "returned"
    /\ s_count >= 2
    /\ s_count = TotalDays(s_start, s_end) - 1
    /\ s_result = s_dates
    /\ s_result[s_count] = Strptime(s_end) - MinutesPerDay
                               + HourHi * MinutesPerHour + MinuteHi

\* the 12th action of the first phase, the rewrite of .gitignore
IsGitignoreRewrite(call) == call.p = 1 /\ call.c = 12

\* every action but the rewrite of .gitignore has committed
AllOthersCommitted ==
    /\ Len(calls) = TotalActions
    /\ \A k \in 1..Len(calls) : ~IsGitignoreRewrite(calls[k]) => calls[k].committed

\* C22: in a run of the four fixed phases, 85 actions, the rewrite of
\* .gitignore with its own content never commits, so a run creates at most 84
\* commits; when every other action commits, the check of the counters
\* (threshold 13) raises for every pool of 6 or more identities and passes
\* for every pool of 2 to 5.
C22_GitignoreRewriteNeverCommits ==
    setup.reg = "fixed"
       => /\ TotalActions = 85
          /\ \A k \in 1..Len(calls) : IsGitignoreRewrite(calls[k]) => ~calls[k].committed
          /\ Len(history) <= 84
          /\ (AllOthersCommitted /\ pc # "loop" /\ Len(accounts) >= 6)
                => pc = "error" /\ err.kind = "AuthorCount"
          /\ (AllOthersCommitted /\ pc # "loop" /\ Len(accounts) \in 2..5)
                => err.kind # "AuthorCount"

====
